---- MODULE Spec2Model ----
(***************************************************************************)
(* Issues-Exporter: the full exporter (src/main.py) and the clean exporter *)
(* (src/main_clean.py) as one state machine, the remote API being the      *)
(* environment.  A Python value that may be missing is written with two    *)
(* sentinels: ABSENT (the key is not in the dict) and NULL (the key is     *)
(* there and holds None).  An integer or a list that may be missing is a   *)
(* tagged record [k |-> ABSENT | NULL | VAL, v |-> the value].             *)
(***************************************************************************)
EXTENDS Integers, Sequences, FiniteSets, TLC

\* ---------------------------------------------------------------- bounds
\* The page size both exporters ask for is 100 (src/main.py:55 and :40,
\* src/main_clean.py:40 and :56); the model is scaled down to pages of
\* per_page records, which keeps "full page" and "short page" apart.
per_page == 2
\* The remote serves at most MaxIssues issue records and MaxComments
\* comment records in one run (the budget that bounds the page counters).
MaxIssues == 3
MaxComments == 2

\* ------------------------------------------------------------- sentinels
ABSENT == "<absent>"
NULL == "<None>"
VAL == "<value>"
URL == "comments_url"

Absent == [k |-> ABSENT, v |-> 0]
Null == [k |-> NULL, v |-> 0]
Int0(n) == [k |-> VAL, v |-> n]
NoList == [k |-> ABSENT, v |-> <<>>]
NullList == [k |-> NULL, v |-> <<>>]
List(s) == [k |-> VAL, v |-> s]

\* ------------------------------------------------------- python helpers
\* dict.get(key, default) on a string-valued key
Get(x, default) == IF x = ABSENT THEN default ELSE x
\* dict.get(key): a missing key reads None
GetNone(x) == Get(x, NULL)
\* (x or "") on a string-valued key read with dict.get(key)
OrEmpty(x) == IF x \in {ABSENT, NULL, ""} THEN "" ELSE x
\* (dict.get(key) or []) on a list-valued key
OrEmptyList(f) == IF f.k = VAL THEN f.v ELSE <<>>
\* truthiness of dict.get("comments", 0): None and 0 are falsy
Truthy(f) == f.k = VAL /\ f.v # 0
\* (dict.get("comments", 0) or 0)
OrZero(f) == IF f.k = VAL THEN f.v ELSE 0

RECURSIVE JoinFrom(_, _, _)
JoinFrom(s, sep, i) ==
  IF i > Len(s) THEN ""
  ELSE IF i = Len(s) THEN s[i]
  ELSE s[i] \o sep \o JoinFrom(s, sep, i + 1)
\* sep.join(s): raises TypeError when an item is None, which the callers
\* test with HasNull before they join
Join(s, sep) == JoinFrom(s, sep, 1)
HasNull(s) == \E i \in 1..Len(s) : s[i] = NULL
Map(s, F(_)) == [i \in 1..Len(s) |-> F(s[i])]

RECURSIVE Flatten(_)
Flatten(ss) == IF ss = <<>> THEN <<>> ELSE Head(ss) \o Flatten(Tail(ss))

\* ------------------------------------------------------- the remote API
\* What the listing endpoint can hold: an issue without comments, an issue
\* with one reported comment, a pull request with one reported comment, an
\* issue that reports a comment and carries no comments_url, and an issue
\* with no comment count whose label has a null name.
IssueKinds == {"plain", "commented", "pr", "nourl", "badlabel"}
CommentKinds == {"normal", "ghost"}

MkIssue(n, kind) ==
  [number |-> n,
   pull_request |-> (kind = "pr"),
   title |-> IF kind = "badlabel" THEN NULL ELSE "t",
   user |-> VAL,
   login |-> "alice",
   labels |-> IF kind = "badlabel" THEN List(<<NULL>>)
              ELSE IF kind = "plain" THEN NullList ELSE List(<<"bug", "ui">>),
   assignees |-> IF kind = "plain" THEN NoList ELSE List(<<"alice">>),
   comments |-> IF kind = "badlabel" THEN Absent
                ELSE IF kind = "plain" THEN Int0(0) ELSE Int0(1),
   comments_url |-> IF kind = "nourl" THEN ABSENT ELSE URL]

\* A comment of a deleted account ("ghost") has a null user.
MkComment(k, kind) ==
  [id |-> k,
   user |-> IF kind = "ghost" THEN NULL ELSE VAL,
   login |-> "bob",
   body |-> IF kind = "ghost" THEN NULL ELSE "hi"]

IssuesUrl == [ep |-> "issues", n |-> 0]
CommentsUrl(n) == [ep |-> "comments", n |-> n]

VARIABLES
  exporter,     \* "full" (src/main.py) or "clean" (src/main_clean.py)
  owner, repo,  \* args.owner, args.repo: NULL, "" or a name
  include_prs,  \* args.include_prs (the clean exporter has no such flag)
  pc,           \* the position of the run
  err,          \* the exception that ended the run, "" when none
  page,         \* fetch_issues / fetch_clean: page
  batch, idx,   \* the page being iterated and the position of the for loop
  issues,       \* fetch_issues: issues; fetch_clean: cleaned
  cpage, cout,  \* paged_get: page, results (out)
  reqlog,       \* every request of this run with the response it got
  json_file,    \* the file at args.out_json
  csv_file,     \* the file at args.out_csv
  run,          \* 1, or 2 when the tool is run a second time
  prior,        \* the requests and responses of the first run
  first         \* the result of the first run

vars == <<exporter, owner, repo, include_prs, pc, err, page, batch, idx, issues,
          cpage, cout, reqlog, json_file, csv_file, run, prior, first>>

RECURSIVE Served(_, _)
\* the number of records the remote has served on endpoint ep in this run
Served(log, ep) ==
  IF log = <<>> THEN 0
  ELSE (IF Head(log).url.ep = ep THEN Len(Head(log).data) ELSE 0) + Served(Tail(log), ep)

RECURSIVE ThreadLen(_, _)
\* the number of comments of issue n served in this run
ThreadLen(log, n) ==
  IF log = <<>> THEN 0
  ELSE (IF Head(log).url = CommentsUrl(n) THEN Len(Head(log).data) ELSE 0)
       + ThreadLen(Tail(log), n)

\* the pages the remote may serve next on the listing endpoint
IssuePages ==
  LET base == Served(reqlog, "issues")
  IN  UNION {{[i \in 1..l |-> MkIssue(base + i, ks[i])] : ks \in [1..l -> IssueKinds]}
             : l \in {l \in 0..per_page : base + l <= MaxIssues}}

\* the pages the remote may serve next on the comment endpoint of issue n
CommentPages(n) ==
  LET base == ThreadLen(reqlog, n)
  IN  UNION {{[i \in 1..l |-> MkComment(base + i, ks[i])] : ks \in [1..l -> CommentKinds]}
             : l \in {l \in 0..per_page : Served(reqlog, "comments") + l <= MaxComments}}

\* requests.get: the response to a request; the remote answers a request it
\* has answered in an earlier run the same way
Responses(url, p) ==
  IF \E i \in 1..Len(prior) : prior[i].url = url /\ prior[i].page = p
  THEN {[status |-> prior[i].status, data |-> prior[i].data] :
          i \in {i \in 1..Len(prior) : prior[i].url = url /\ prior[i].page = p}}
  ELSE {[status |-> 500, data |-> <<>>]}
       \cup {[status |-> 200, data |-> d] :
               d \in IF url.ep = "issues" THEN IssuePages ELSE CommentPages(url.n)}

Logged(url, p, r) ==
  Append(reqlog, [url |-> url, page |-> p, status |-> r.status, data |-> r.data])

NotOpened == [opened |-> FALSE, content |-> <<>>]

Init ==
  /\ exporter \in {"full", "clean"}
  /\ owner \in {NULL, "", "o"}
  /\ repo \in {NULL, "", "r"}
  /\ include_prs \in IF exporter = "full" THEN BOOLEAN ELSE {FALSE}
  /\ pc = "start"
  /\ err = ""
  /\ page = 1
  /\ batch = <<>>
  /\ idx = 1
  /\ issues = <<>>
  /\ cpage = 1
  /\ cout = <<>>
  /\ reqlog = <<>>
  /\ json_file = NotOpened
  /\ csv_file = NotOpened
  /\ run = 1
  /\ prior = <<>>
  /\ first = <<>>

\* ------------------------------------------------------------ fetching
\* a variant that ignores include_prs
Skips_Always(issue) == issue.pull_request

\* the Record Filter: "pull_request" in issue, under include_prs
Skips(issue) == issue.pull_request /\ (exporter = "clean" \/ ~include_prs)

\* a variant that asks for the comments only from two comments up
WantsComments_OffByOne(issue) ==
  IF exporter = "full"
  THEN issue.comments_url \notin {ABSENT, NULL, ""} /\ OrZero(issue.comments) > 1
  ELSE issue.comments.k = VAL /\ issue.comments.v > 1

\* the guard of the comment fetch
WantsComments(issue) ==
  IF exporter = "full"
  THEN issue.comments_url \notin {ABSENT, NULL, ""} /\ OrZero(issue.comments) > 0
  ELSE Truthy(issue.comments)

\* issue["comments_url"] raises KeyError in the clean exporter
UrlKeyError(issue) == exporter = "clean" /\ issue.comments_url = ABSENT

\* the full exporter: dict(issue) with comments_data attached
IssueWithComments(issue, comments_data) ==
  [f \in DOMAIN issue \cup {"comments_data"} |->
     IF f = "comments_data" THEN List(comments_data) ELSE issue[f]]

CleanComment(c) ==
  [author |-> IF c.user \in {ABSENT, NULL} THEN NULL ELSE GetNone(c.login),
   body |-> GetNone(c.body)]

\* the clean exporter: the reduced record
Cleaned(issue, comments) ==
  [number |-> issue.number,
   title |-> GetNone(issue.title),
   labels |-> Map(OrEmptyList(issue.labels), GetNone),
   assignees |-> Map(OrEmptyList(issue.assignees), GetNone),
   comments |-> Map(comments, CleanComment)]

Retained(issue, comments) ==
  IF exporter = "full" THEN IssueWithComments(issue, comments) ELSE Cleaned(issue, comments)

\* a variant that goes on until a page comes back empty
LastPage_Never(data) == Len(data) < 1

\* a variant that counts the records left after the filter
LastPage_Filtered(data) == Len(SelectSeq(data, LAMBDA r : ~Skips(r))) < per_page

\* the test that ends the listing loop after a page has been iterated
LastPage(data) == Len(data) < per_page

\* a variant that also stops on a page of exactly per_page records
LastCommentPage_OffByOne(data) == Len(data) <= per_page

\* the test that ends paged_get after a page has been added
LastCommentPage(data) == Len(data) < per_page

\* the for loop moves past position i of the batch; after the last record
\* the while loop adds one to page and tests the length of the batch
Continue(i) ==
  IF i < Len(batch)
  THEN /\ idx' = i + 1
       /\ pc' = "batch"
       /\ page' = page
  ELSE /\ idx' = i + 1
       /\ page' = page + 1
       /\ pc' = IF LastPage(batch) THEN "json" ELSE "list"

\* a variant that forgets to test args.repo
MissingArgs_OwnerOnly == owner \in {NULL, ""}

\* main(): not args.owner or not args.repo
MissingArgs == owner \in {NULL, ""} \/ repo \in {NULL, ""}

\* main(): the argument check and the call of fetch_issues / fetch_clean
Main ==
  /\ pc = "start"
  /\ IF MissingArgs
     THEN /\ pc' = "exit"
          /\ err' = "SystemExit"
          /\ UNCHANGED <<page, issues>>
     ELSE /\ pc' = "list"
          /\ err' = ""
          /\ page' = 1
          /\ issues' = <<>>
  /\ UNCHANGED <<exporter, owner, repo, include_prs, batch, idx, cpage, cout,
                 reqlog, json_file, csv_file, run, prior, first>>

\* a variant that takes a failed page for the end of the listing
ListError_Break == /\ pc' = "json"
                   /\ err' = err

\* what a non-200 listing response does to the run
ListError == /\ pc' = "error"
             /\ err' = "RuntimeError"

\* fetch_issues / fetch_clean: one request of the listing loop
ListPage ==
  /\ pc = "list"
  /\ \E r \in Responses(IssuesUrl, page) :
       /\ reqlog' = Logged(IssuesUrl, page, r)
       /\ IF r.status # 200
          THEN /\ ListError
               /\ UNCHANGED <<batch, idx>>
          ELSE IF r.data = <<>>
          THEN /\ pc' = "json"
               /\ batch' = r.data
               /\ UNCHANGED <<err, idx>>
          ELSE /\ pc' = "batch"
               /\ batch' = r.data
               /\ idx' = 1
               /\ UNCHANGED err
  /\ UNCHANGED <<exporter, owner, repo, include_prs, page, issues, cpage, cout,
                 json_file, csv_file, run, prior, first>>

\* one iteration of the for loop, up to the call of paged_get
NextIssue ==
  /\ pc = "batch"
  /\ idx <= Len(batch)
  /\ LET issue == batch[idx]
     IN  IF Skips(issue)
         THEN /\ Continue(idx)
              /\ UNCHANGED <<err, issues, cpage, cout>>
         ELSE IF ~WantsComments(issue)
         THEN /\ issues' = Append(issues, Retained(issue, <<>>))
              /\ Continue(idx)
              /\ UNCHANGED <<err, cpage, cout>>
         ELSE IF UrlKeyError(issue)
         THEN /\ pc' = "error"
              /\ err' = "KeyError"
              /\ UNCHANGED <<page, idx, issues, cpage, cout>>
         ELSE /\ pc' = "comments"
              /\ cpage' = 1
              /\ cout' = <<>>
              /\ UNCHANGED <<err, page, idx, issues>>
  /\ UNCHANGED <<exporter, owner, repo, include_prs, batch, reqlog, json_file,
                 csv_file, run, prior, first>>

\* a variant that takes the URL of the wrong record
CommentsUrlOf_Next(issue) == CommentsUrl(issue.number + 1)

\* the URL paged_get is called with: the comments_url of the record
CommentsUrlOf(issue) == CommentsUrl(issue.number)

\* what a non-200 comment response does to the run
CommentError == /\ pc' = "error"
                /\ err' = "RuntimeError"

\* paged_get: one request (the comment endpoint answers with a JSON array);
\* on return the record is appended and the for loop goes on
CommentPage ==
  /\ pc = "comments"
  /\ LET issue == batch[idx]
     IN  \E r \in Responses(CommentsUrlOf(issue), cpage) :
           /\ reqlog' = Logged(CommentsUrlOf(issue), cpage, r)
           /\ IF r.status # 200
              THEN /\ CommentError
                   /\ UNCHANGED <<page, idx, issues, cpage, cout>>
              ELSE IF r.data = <<>>
              THEN /\ issues' = Append(issues, Retained(issue, cout))
                   /\ Continue(idx)
                   /\ UNCHANGED <<err, cpage, cout>>
              ELSE IF LastCommentPage(r.data)
              THEN /\ cout' = cout \o r.data
                   /\ issues' = Append(issues, Retained(issue, cout \o r.data))
                   /\ Continue(idx)
                   /\ UNCHANGED <<err, cpage>>
              ELSE /\ cout' = cout \o r.data
                   /\ cpage' = cpage + 1
                   /\ UNCHANGED <<pc, err, page, idx, issues>>
  /\ UNCHANGED <<exporter, owner, repo, include_prs, batch, json_file, csv_file,
                 run, prior, first>>

\* ---------------------------------------------------------- projection
\* csv.DictWriter writes None as the empty string and a number as str(n)
CsvCell(v) == IF v = NULL THEN "" ELSE v
CsvInt(f) == IF f.k = ABSENT THEN "0" ELSE IF f.k = NULL THEN "" ELSE ToString(f.v)
\* str(x) inside an f-string
Str(v) == IF v = NULL THEN "None" ELSE v

LabelName(l) == Get(l, "")
CommentLogin(c) == IF c.user \in {ABSENT, NULL} THEN "" ELSE Get(c.login, "")
CommentText(c) == CommentLogin(c) \o ": " \o OrEmpty(c.body)

\* to_csv: whether building the row of record it raises TypeError
FullRowRaises(it) ==
  \/ HasNull(Map(OrEmptyList(it.labels), LabelName))
  \/ HasNull(Map(OrEmptyList(it.assignees), LabelName))
  \/ HasNull(Map(OrEmptyList(it.comments_data), CommentLogin))

\* to_csv: the row of record it, as the writer puts it in the file
FullRow(it) ==
  [number |-> ToString(it.number),
   title |-> CsvCell(GetNone(it.title)),
   author |-> CsvCell(IF it.user \in {ABSENT, NULL} THEN "" ELSE Get(it.login, "")),
   labels |-> Join(Map(OrEmptyList(it.labels), LabelName), "; "),
   assignees |-> Join(Map(OrEmptyList(it.assignees), LabelName), "; "),
   comments_count |-> CsvInt(it.comments),
   comments |-> Join(Map(OrEmptyList(it.comments_data), CommentText), "\n---\n")]

\* write_csv: whether writing the row of cleaned record it raises TypeError
CleanRowRaises(it) == HasNull(it.labels) \/ HasNull(it.assignees)

CleanCommentText(c) == Str(c.author) \o ": " \o OrEmpty(c.body)

\* write_csv: the row of cleaned record it
CleanRow(it) ==
  [number |-> ToString(it.number),
   title |-> CsvCell(it.title),
   labels |-> Join(it.labels, "; "),
   assignees |-> Join(it.assignees, "; "),
   comments_count |-> ToString(Len(it.comments)),
   comments |-> Join(Map(it.comments, CleanCommentText), "\n---\n")]

RowRaises(it) == IF exporter = "full" THEN FullRowRaises(it) ELSE CleanRowRaises(it)
Row(it) == IF exporter = "full" THEN FullRow(it) ELSE CleanRow(it)

\* the position of the first record whose row raises, Len + 1 when none does
FirstRaise(recs) ==
  LET bad == {i \in 1..Len(recs) : RowRaises(recs[i])}
  IN  IF bad = {} THEN Len(recs) + 1 ELSE CHOOSE i \in bad : \A j \in bad : i <= j

HeaderLine == [kind |-> "header", cells |-> <<>>]
RowLine(it) == [kind |-> "row", cells |-> Row(it)]

\* ----------------------------------------------------------- serializing
\* main(): open(args.out_json, "w") and json.dump
WriteJson ==
  /\ pc = "json"
  /\ json_file' = [opened |-> TRUE, content |-> issues]
  /\ pc' = "csv"
  /\ UNCHANGED <<exporter, owner, repo, include_prs, err, page, batch, idx, issues,
                 cpage, cout, reqlog, csv_file, run, prior, first>>

\* the lines to_csv / write_csv leave in the file when the first k - 1
\* records are written
CsvLines(k) == <<HeaderLine>> \o [i \in 1..(k - 1) |-> RowLine(issues[i])]

\* to_csv builds every row before it opens the file; write_csv opens the
\* file, writes the header and builds each row as it writes it
WriteCsv ==
  /\ pc = "csv"
  /\ LET k == FirstRaise(issues)
     IN  IF k > Len(issues)
         THEN /\ csv_file' = [opened |-> TRUE, content |-> CsvLines(k)]
              /\ pc' = "done"
              /\ UNCHANGED err
         ELSE /\ csv_file' = IF exporter = "full" THEN csv_file
                             ELSE [opened |-> TRUE, content |-> CsvLines(k)]
              /\ pc' = "error"
              /\ err' = "TypeError"
  /\ UNCHANGED <<exporter, owner, repo, include_prs, page, batch, idx, issues,
                 cpage, cout, reqlog, json_file, run, prior, first>>

\* the tool is run again, now with --include-prs, against the same remote
Rerun ==
  /\ pc = "done"
  /\ run = 1
  /\ exporter = "full"
  /\ ~include_prs
  /\ run' = 2
  /\ include_prs' = TRUE
  /\ prior' = reqlog
  /\ first' = issues
  /\ reqlog' = <<>>
  /\ pc' = "start"
  /\ UNCHANGED <<exporter, owner, repo, err, page, batch, idx, issues, cpage, cout,
                 json_file, csv_file>>

Next == Main \/ ListPage \/ NextIssue \/ CommentPage \/ WriteJson \/ WriteCsv

Spec == Init /\ [][Next]_vars

\* the run is one sequential process: a step that can be taken is taken
FairSpec == Spec /\ WF_vars(Next)

NextPair == Next \/ Rerun

SpecPair == Init /\ [][NextPair]_vars

\* ------------------------------------------------- reading the request log
IsListing(e) == e.url.ep = "issues"
IsComment(e) == e.url.ep = "comments"
\* the requests of the listing loop, and those of the thread of issue n
ListingLog == SelectSeq(reqlog, IsListing)
Thread(n) == SelectSeq(reqlog, LAMBDA e : e.url = CommentsUrl(n))
PagesOf(t) == Flatten([j \in 1..Len(t) |-> t[j].data])
\* every record the listing endpoint has served in this run, in order
Fetched == PagesOf(ListingLog)
FullPage(e) == e.status = 200 /\ Len(e.data) >= per_page
ShortPage(e) == e.status = 200 /\ Len(e.data) < per_page
\* the requests t ask for pages 1, 2, ..., each before the last got a full page
Consecutive(t) ==
  \A j \in 1..Len(t) : t[j].page = j /\ (j < Len(t) => FullPage(t[j]))
\* t is a listing read to its end: its last page is the first short one
ReadToEnd(t) == t # <<>> /\ Consecutive(t) /\ ShortPage(t[Len(t)])
Numbers(recs) == [i \in 1..Len(recs) |-> recs[i].number]
CommentsOf(rec) == IF exporter = "full" THEN rec.comments_data.v ELSE rec.comments
AsRetained(cs) == IF exporter = "full" THEN cs ELSE Map(cs, CleanComment)
Excluded(r) == r.pull_request /\ (exporter = "clean" \/ ~include_prs)
\* fetch_issues / fetch_clean has returned its result
FetchReturned == pc \in {"json", "csv", "done"} \/ err = "TypeError"
Ended == pc \in {"done", "error", "exit"}

RECURSIVE Keep(_)
\* the records of s the Record Filter does not exclude
Keep(s) ==
  IF s = <<>> THEN <<>>
  ELSE (IF Excluded(Head(s)) THEN <<>> ELSE <<Head(s)>>) \o Keep(Tail(s))

RECURSIVE IsSubseq(_, _)
IsSubseq(a, b) ==
  IF a = <<>> THEN TRUE
  ELSE IF b = <<>> THEN FALSE
  ELSE IF Head(a) = Head(b) THEN IsSubseq(Tail(a), Tail(b))
  ELSE IsSubseq(a, Tail(b))

C2_AbortBeforeOutput ==
  /\ \A i \in 1..Len(reqlog) :
       reqlog[i].status # 200 =>
         /\ i = Len(reqlog)
         /\ pc = "error"
         /\ err = "RuntimeError"
         /\ ~json_file.opened
         /\ ~csv_file.opened
  /\ \A i, j \in 1..Len(reqlog) :
       (reqlog[i].url = reqlog[j].url /\ reqlog[i].page = reqlog[j].page) => i = j

\* a comment request failed after a record had been retained
C2_Witness ==
  /\ pc = "error"
  /\ issues # <<>>
  /\ reqlog # <<>>
  /\ IsComment(reqlog[Len(reqlog)])
  /\ reqlog[Len(reqlog)].status # 200

\* ------------------------------------------------------------------ C6
\* C6: with owner or repo missing or empty the run ends with SystemExit,
\* and it never issues a request nor opens an output file.
C6_UsageError ==
  (owner \in {NULL, ""} \/ repo \in {NULL, ""}) =>
    /\ reqlog = <<>>
    /\ ~json_file.opened
    /\ ~csv_file.opened
    /\ pc \in {"start", "exit"}
    /\ (pc = "exit" <=> err = "SystemExit")

C6_Witness == pc = "exit" /\ owner = "o" /\ repo = NULL /\ reqlog = <<>>

\* ------------------------------------------------------------------ C10
\* C10: the listing loop goes on after every full page, whatever the filter
\* drops of it: when the fetch has returned, the listing was read up to its
\* first short or empty page and the result is exactly the records of those
\* pages the filter does not exclude, in order.
C10_RawLength ==
  /\ Consecutive(ListingLog)
  /\ FetchReturned =>
       /\ ReadToEnd(ListingLog)
       /\ Numbers(issues) = Numbers(Keep(Fetched))

\* a full first page of pull requests only was dropped whole, and the next
\* page was asked for and gave a record
C10_Witness ==
  /\ pc = "done"
  /\ Len(ListingLog) = 2
  /\ \A i \in 1..Len(ListingLog[1].data) : Excluded(ListingLog[1].data[i])
  /\ issues # <<>>

\* ------------------------------------------------------------------ C3
\* the record of the listing a retained record was made of
Raw(rec) == Fetched[rec.number]
NoCommentCount(r) == OrZero(r.comments) = 0
HasComments(r) == r.comments.k = VAL /\ r.comments.v > 0
HasUrl(r) == r.comments_url \notin {ABSENT, NULL, ""}

\* C3 as stated: a retained record with comment count 0 or absent has no
\* request on its comment endpoint, and one with a count above 0 has one.
C3_AsStated ==
  \A i \in 1..Len(issues) :
    LET r == Raw(issues[i])
    IN  /\ NoCommentCount(r) => Thread(r.number) = <<>>
        /\ HasComments(r) => Thread(r.number) # <<>>

\* C3 amended: a retained record with comment count 0, null or absent has
\* no request on its comment endpoint; one with a count above 0 that
\* carries a non-empty comments_url has at least one.
C3_CommentGate ==
  \A i \in 1..Len(issues) :
    LET r == Raw(issues[i])
    IN  /\ NoCommentCount(r) => Thread(r.number) = <<>>
        /\ (HasComments(r) /\ HasUrl(r)) => Thread(r.number) # <<>>

\* both kinds of record are retained, and one that reports a comment and
\* has no comments_url is retained with no request made for it
C3_Witness ==
  /\ pc = "done"
  /\ \E i \in 1..Len(issues) :
       HasComments(Raw(issues[i])) /\ HasUrl(Raw(issues[i]))
  /\ \E i \in 1..Len(issues) : NoCommentCount(Raw(issues[i]))
  /\ \E i \in 1..Len(issues) :
       /\ HasComments(Raw(issues[i]))
       /\ ~HasUrl(Raw(issues[i]))
       /\ Thread(issues[i].number) = <<>>

\* ------------------------------------------------------------------ C4
\* C4: when the fetch has returned, a served record is in the result if and
\* only if it has no pull-request marker or pull requests are included;
\* and the result of a run without --include-prs is a subsequence of the
\* result of a run with it against the same remote.
C4_RecordFilter ==
  /\ FetchReturned =>
       \A n \in 1..Len(Fetched) :
         (\E i \in 1..Len(issues) : issues[i].number = n)
           <=> (~Fetched[n].pull_request \/ (exporter = "full" /\ include_prs))
  /\ (run = 2 /\ FetchReturned) => IsSubseq(first, issues)

\* the second run kept a pull request the first run had dropped
C4_Witness ==
  /\ run = 2
  /\ pc = "done"
  /\ first # <<>>
  /\ Len(first) < Len(issues)
  /\ \E i \in 1..Len(issues) : issues[i].pull_request

\* ------------------------------------------------------------------ C5
JsonNumbers == [i \in 1..Len(json_file.content) |-> ToString(json_file.content[i].number)]
CsvRows == SelectSeq(csv_file.content, LAMBDA l : l.kind = "row")
CsvNumbers == [i \in 1..Len(CsvRows) |-> CsvRows[i].cells.number]

\* C5: when a run has ended the JSON file and the CSV file list the same
\* records in the same order; after a run that ended normally they list
\* every retained record once, the CSV under exactly one header row.
C5_SameRecords ==
  Ended =>
    /\ JsonNumbers = CsvNumbers
    /\ pc = "done" =>
         /\ json_file.content = issues
         /\ Len(csv_file.content) = Len(issues) + 1
         /\ csv_file.content[1].kind = "header"
         /\ CsvNumbers = [i \in 1..Len(issues) |-> ToString(issues[i].number)]

\* ------------------------------------------------------------------ C7
\* the comment cell with every absent or null author and body coerced to
\* the empty string
CoercedCommentText(c) ==
  IF exporter = "full" THEN CommentLogin(c) \o ": " \o OrEmpty(c.body)
  ELSE OrEmpty(c.author) \o ": " \o OrEmpty(c.body)
CoercedComments(rec) == Join(Map(CommentsOf(rec), CoercedCommentText), "\n---\n")

\* C7: the CSV projection never raises, and no cell of a written row holds
\* a null marker: an absent or null value is written as the empty string.
C7_Coercion ==
  /\ err # "TypeError"
  /\ \A i \in 1..Len(CsvRows) :
       LET cells == CsvRows[i].cells
       IN  /\ \A f \in DOMAIN cells : cells[f] # NULL
           /\ cells.comments = CoercedComments(issues[i])

\* ------------------------------------------------------------------ C8
\* C8 as stated: no listing request follows a comment request, and no
\* request is issued once an output file is open.
C8_AsStated ==
  /\ [](\A i, j \in 1..Len(reqlog) :
          (i < j /\ IsComment(reqlog[i])) => ~IsListing(reqlog[j]))
  /\ [][(json_file.opened \/ csv_file.opened) => reqlog' = reqlog]_vars

\* the listing request that served the page the run is working on
LastListingBefore(j) ==
  CHOOSE i \in 1..j : IsListing(reqlog[i]) /\ \A k \in (i + 1)..j : ~IsListing(reqlog[k])

\* C8 amended: pages are fetched one at a time and the records of a page
\* are filtered and enriched before the next page is asked for: a comment
\* request is for a record of the page the latest listing request served,
\* comment requests follow the order of the records; and no request is
\* issued once an output file is open, the JSON file being opened first.
C8_Linear ==
  /\ [](\A j \in 1..Len(reqlog) :
          IsComment(reqlog[j]) =>
            /\ \E i \in 1..j : IsListing(reqlog[i])
            /\ \E k \in 1..Len(reqlog[LastListingBefore(j)].data) :
                 reqlog[LastListingBefore(j)].data[k].number = reqlog[j].url.n
            /\ \A i \in 1..j : IsComment(reqlog[i]) => reqlog[i].url.n <= reqlog[j].url.n)
  /\ [](csv_file.opened => json_file.opened)
  /\ [][(json_file.opened \/ csv_file.opened) => reqlog' = reqlog]_vars

\* a listing request was issued after a comment request, and both files
\* were written after the last request
C8_Witness ==
  /\ pc = "done"
  /\ json_file.opened
  /\ csv_file.opened
  /\ \E i, j \in 1..Len(reqlog) :
       i < j /\ IsComment(reqlog[i]) /\ IsListing(reqlog[j])

\* ------------------------------------------------------------------ C9
\* the listings of the run: the issue listing and every thread asked for
Listings == {ListingLog} \cup {Thread(reqlog[j].url.n) : j \in {j \in 1..Len(reqlog) : IsComment(reqlog[j])}}

\* C9 as stated: the run ends when every listing comes to a page that is
\* not a full 200 page, and a run in which the latest answer of some
\* listing is a full page has not ended.
C9_AsStated ==
  /\ <>Ended
  /\ [](\A t \in Listings : (t # <<>> /\ FullPage(t[Len(t)])) => ~Ended)

\* C9 amended: the run ends, since every listing comes to a page that is not
\* a full 200 page; a listing is left normally only after a short or empty
\* page, each full page being followed by the request for the next page
\* index; while the latest answer of a listing is a full page no output
\* file is open and the run goes on, unless it is aborted from elsewhere:
\* by a non-200 answer to a request of another listing, or in the clean
\* exporter by a record with a comment count and no comments_url.
C9_Termination ==
  /\ <>Ended
  /\ [](\A t \in Listings :
          /\ Consecutive(t)
          /\ (t # <<>> /\ FullPage(t[Len(t)])) =>
               /\ pc \notin {"json", "csv", "done", "exit"}
               /\ ~json_file.opened
               /\ ~csv_file.opened
               /\ pc # "error" => ENABLED Next
               /\ pc = "error" =>
                    \/ err = "RuntimeError" /\ reqlog[Len(reqlog)].status # 200
                    \/ err = "KeyError" /\ exporter = "clean"
                         /\ batch[idx].comments_url = ABSENT)
  /\ [](pc = "list" => page = Len(ListingLog) + 1)
  /\ [](pc = "comments" => cpage = Len(Thread(batch[idx].number)) + 1)

\* the listing answered with a full page, was asked for page 2, and the run
\* ended with both files written
C9_Witness ==
  /\ pc = "done"
  /\ Len(ListingLog) = 2
  /\ page = 3
  /\ csv_file.opened

====
